---- MODULE Spec2Model ----
(***************************************************************************)
(* A model of the SharePoint client of LangChain_SharePointLoader: the     *)
(* folder listings (sharepoint_api.py and the older sharepoint_aoi.py),    *)
(* the three download walks (recursive_download, the process_element       *)
(* script, download_folder_contents) over a remote drive and a local file  *)
(* system, the resolution of the path of an item, the dispatch of          *)
(* load_sharepoint_document on the MIME type, the load_and_split of the    *)
(* Word, Excel, PowerPoint, Text and PDF loaders, the loop of main.py,     *)
(* download_file_contents and get_folder_id called alone, and the          *)
(* pagination loop of list_folder_contents taken one request at a time.    *)
(*                                                                         *)
(* Each entry point has a specification of its own (SpecList, SpecRD,      *)
(* SpecPE, SpecDF, SpecFetch, SpecTerm, SpecFolderId, SpecResolve,         *)
(* SpecDispatch, SpecLoad, SpecReload, SpecPdf, SpecMain): a behaviour is  *)
(* the run of one program.                                                 *)
(*                                                                         *)
(* Strings are sequences of tokens: "/", "root", ":" and one token per     *)
(* name.  A local path is a sequence of segments, each segment a string.   *)
(***************************************************************************)
EXTENDS Integers, Sequences, FiniteSets, TLC

\* ------------------------------------------------------------------ bounds
MaxNodes == 3        \* nodes of the remote drive below its root
MaxPage == 2         \* the server's page size is 1 or MaxPage
MaxFail == 1         \* failing requests / local errors per behaviour
MaxRuns == 2         \* program runs per behaviour

Nodes == 1..MaxNodes
RootId == 0          \* the folder id 'root'

VARIABLES
    kind,            \* remote: node -> "folder" | "file" (the facet of the item)
    parent,          \* remote: node -> containing folder (RootId for the drive root)
    pageSize,        \* remote: items per page of a children listing
    dup,             \* remote: a file the server reports a second time, or 0
    prog,            \* the program that is running, "idle" between runs
    stack,           \* call stack of the running walk, innermost frame last
    raising,         \* an exception is propagating out of the popped frame
    listed,          \* last call of a list_folder_contents: arguments and result
    processed_files, \* download_all_files_to_local_folder.py: the dedup set
    dirs,            \* local directories
    files,           \* local files
    log,             \* lines printed
    runs,            \* runs started so far
    fails,           \* failures injected so far
    start,           \* folder id the current run was started on
    fetchCount,      \* this run: node -> number of times its bytes were saved
    written,         \* this run: local paths written
    failedFiles,     \* this run: files whose download failed
    failedLists,     \* this run: folders whose children listing failed
    raisedFiles,     \* this run: files whose download failed by raising
    raisedLists,     \* this run: folders whose children listing raised
    skipped,         \* this run: files skipped as already processed
    refetched,       \* this run: files fetched while already in the dedup set
    resolved,        \* last path resolution: its input and what it gave
    dispatched,      \* last call of a load_sharepoint_document: arguments and result
    loaded,          \* last call of a load_and_split: loader, arguments and result
    main,            \* main.py: the loop over the contents of a folder
    fetched          \* last call of download_file_contents alone: argument and result

remote == <<kind, parent, pageSize, dup>>
control == <<prog, stack, raising>>
localfs == <<dirs, files>>
history == <<start, fetchCount, written, failedFiles, failedLists,
             raisedFiles, raisedLists, skipped, refetched>>
loading == <<resolved, dispatched, loaded, main, fetched>>
vars == <<remote, control, listed, processed_files, localfs, log, runs, fails, history,
          loading>>

\* ------------------------------------------------------- string helpers
\* sub occurs in s at position i
OccursAt(s, sub, i) ==
    /\ i + Len(sub) - 1 <= Len(s)
    /\ SubSeq(s, i, i + Len(sub) - 1) = sub

\* str.find(sub): the first position of sub in s, 0 for Python's -1
RECURSIVE FindFrom(_, _, _)
FindFrom(s, sub, i) ==
    IF i + Len(sub) - 1 > Len(s) THEN 0
    ELSE IF OccursAt(s, sub, i) THEN i
    ELSE FindFrom(s, sub, i + 1)

Find(s, sub) == FindFrom(s, sub, 1)

\* str.split(sep)
RECURSIVE Split(_, _)
Split(s, sep) ==
    LET i == Find(s, sep)
    IN  IF i = 0 THEN <<s>>
        ELSE <<SubSeq(s, 1, i - 1)>> \o Split(SubSeq(s, i + Len(sep), Len(s)), sep)

\* str.lstrip('/')
RECURSIVE LStripSlash(_)
LStripSlash(s) ==
    IF s # <<>> /\ Head(s) = "/" THEN LStripSlash(Tail(s)) ELSE s

\* the segments of a '/'-separated path, empty segments dropped as
\* os.path.normpath and os.path.abspath drop them
Segments(s) == SelectSeq(Split(s, <<"/">>), LAMBDA part : part # <<>>)

\* prefixes of a local path: what os.makedirs(p, exist_ok=True) creates
Prefixes(p) == {SubSeq(p, 1, k) : k \in 1..Len(p)}

\* ------------------------------------------------------------ the remote
NameOf == <<"a", "b", "c", "d", "e", "f">>
Name(n) == <<NameOf[n]>>

Folders == {n \in Nodes : kind[n] = "folder"}
Files == {n \in Nodes : kind[n] = "file"}

\* parentReference.path of the children of folder f
DrivePrefix == <<"/", "drives", "/", "drv", "/", "root", ":">>

RECURSIVE PathFromRoot(_)
PathFromRoot(f) ==
    IF f = RootId THEN <<>> ELSE PathFromRoot(parent[f]) \o <<"/">> \o Name(f)

ParentReferencePath(n) == DrivePrefix \o PathFromRoot(parent[n])

\* the JSON item the server reports for node n
RemoteItem(n) ==
    [id |-> n, name |-> Name(n), facet |-> kind[n],
     parentPath |-> ParentReferencePath(n)]

\* ids of the children of f in the order the server lists them
RECURSIVE IdsFrom(_, _)
IdsFrom(f, n) ==
    IF n > MaxNodes THEN <<>>
    ELSE (IF parent[n] = f THEN <<n>> ELSE <<>>) \o IdsFrom(f, n + 1)

ChildIds(f) ==
    IdsFrom(f, 1) \o (IF dup # 0 /\ parent[dup] = f THEN <<dup>> ELSE <<>>)

NumPages(f) ==
    LET n == Len(ChildIds(f))
    IN  IF n = 0 THEN 1 ELSE (n + pageSize - 1) \div pageSize

\* the response to the GET of page k of .../items/{f}/children
PageResponse(f, k) ==
    LET ids == ChildIds(f)
        lo == (k - 1) * pageSize + 1
        hi == IF k * pageSize < Len(ids) THEN k * pageSize ELSE Len(ids)
    IN  [value |-> [j \in 1..(hi - lo + 1) |-> RemoteItem(ids[lo + j - 1])],
         nextLink |-> IF k < NumPages(f) THEN k + 1 ELSE 0]

\* descendants of folder f in the remote tree
RECURSIVE IsUnder(_, _)
IsUnder(n, f) ==
    IF n = RootId THEN FALSE
    ELSE IF parent[n] = f THEN TRUE
    ELSE IsUnder(parent[n], f)

Subtree(f) == {n \in Nodes : IsUnder(n, f)}
FilesUnder(f) == {n \in Subtree(f) : kind[n] = "file"}

\* --------------------------------------------------------- request outcomes
\* A GET either answers what was asked ("ok"), raises, as requests.get does on
\* a network error and response.json() on a body that is no JSON ("raise"),
\* or answers a non-2xx status with the Graph error body {"error": ...}
\* ("errjson"), which holds neither 'value' nor '@odata.nextLink'.
ListOutcomes == {"raise", "errjson"}
ErrorBody == [value |-> <<>>, nextLink |-> 0]

\* ------------------------------------ sharepoint_api.py list_folder_contents
\* mutation: a path without the sentinel is taken whole
ResolvePathWhole(parentPath) ==
    LET path_parts == Split(parentPath, <<"root", ":">>)
    IN  IF Len(path_parts) > 1 THEN path_parts[2] ELSE parentPath

\* path_parts = item['parentReference']['path'].split('root:')
\* path = path_parts[1] if len(path_parts) > 1 else ''
ResolvePath(parentPath) ==
    LET path_parts == Split(parentPath, <<"root", ":">>)
    IN  IF Len(path_parts) > 1 THEN path_parts[2] ELSE <<>>

\* mutation: the '/' is put before the name also when path is empty
ResolveFullPathSlash(path, name) == path \o <<"/">> \o name

\* full_path = f"{path}/{item['name']}" if path else item['name']
ResolveFullPath(path, name) ==
    IF path # <<>> THEN path \o <<"/">> \o name ELSE name

ApiEntry(item) ==
    LET path == ResolvePath(item.parentPath)
    IN  [id |-> item.id, name |-> item.name,
         type |-> IF item.facet = "folder" THEN "folder" ELSE "file",
         path |-> path, fullpath |-> ResolveFullPath(path, item.name)]

\* folder_contents_url = folder_contents.get('@odata.nextLink')
ApiNextUrl(folder_contents) == folder_contents.nextLink

\* the while loop: url is the page to GET, 0 when there is none; the GET of
\* page failAt (0: none) fails the way `how` says
RECURSIVE ApiPages(_, _, _, _, _)
ApiPages(f, url, items_list, failAt, how) ==
    IF url = 0 THEN [exc |-> FALSE, items |-> items_list]
    ELSE IF url = failAt /\ how = "raise" THEN [exc |-> TRUE, items |-> <<>>]
    ELSE LET folder_contents == IF url = failAt THEN ErrorBody
                                ELSE PageResponse(f, url)
             value == folder_contents.value
             entries == [j \in 1..Len(value) |-> ApiEntry(value[j])]
         IN  ApiPages(f, ApiNextUrl(folder_contents), items_list \o entries,
                      failAt, how)

list_folder_contents(f, failAt, how) == ApiPages(f, 1, <<>>, failAt, how)

\* ------------------------------------ sharepoint_aoi.py list_folder_contents
AoiEntry(item) ==
    LET path == ResolvePath(item.parentPath)
    IN  [id |-> item.id, name |-> item.name,
         type |-> IF item.facet = "folder" THEN "Folder" ELSE "File",
         path |-> ResolveFullPath(path, item.name)]

\* mutation: the folder is appended after the listing of its subtree
AoiAppendFolderAfter(items_list, entry, sub) == items_list \o sub \o <<entry>>

\* items_list.append(folder); items_list.extend(<the recursive call>)
AoiAppendFolder(items_list, entry, sub) == items_list \o <<entry>> \o sub

\* out: folder id -> outcome of the one GET the call makes for that folder
RECURSIVE list_folder_contents_aoi(_, _)
RECURSIVE AoiItems(_, _, _, _)
list_folder_contents_aoi(f, out) ==
    IF out[f] = "raise" THEN [exc |-> TRUE, items |-> <<>>]
    ELSE LET folder_contents == IF out[f] = "errjson" THEN ErrorBody
                                ELSE PageResponse(f, 1)
         IN  AoiItems(folder_contents.value, 1, <<>>, out)

AoiItems(value, i, items_list, out) ==
    IF i > Len(value) THEN [exc |-> FALSE, items |-> items_list]
    ELSE LET item == value[i]
         IN  IF item.facet = "folder"
             THEN LET sub == list_folder_contents_aoi(item.id, out)
                  IN  IF sub.exc THEN sub
                      ELSE AoiItems(value, i + 1,
                                    AoiAppendFolder(items_list, AoiEntry(item), sub.items),
                                    out)
             ELSE AoiItems(value, i + 1, items_list \o <<AoiEntry(item)>>, out)

\* ------------------------------------------------------------------- Init
LocalRoot == << <<"data">> >>

NoListing == [impl |-> "none"]
NoResolution == [impl |-> "none"]
NoDispatch == [impl |-> "none"]
NoLoad == [loader |-> "none"]
NoMain == [st |-> "idle"]
NoFetch == [file_id |-> 0]

Init ==
    /\ kind \in [Nodes -> {"folder", "file"}]
    /\ parent \in [Nodes -> 0..MaxNodes]
    /\ \A n \in Nodes : parent[n] < n /\ (parent[n] # RootId => kind[parent[n]] = "folder")
    /\ pageSize \in {1, MaxPage}
    /\ dup \in {0} \cup {n \in Nodes : kind[n] = "file"}
    /\ prog = "idle"
    /\ stack = <<>>
    /\ raising = FALSE
    /\ listed = NoListing
    /\ processed_files = {}
    /\ dirs = {}
    /\ files = {}
    /\ log = {}
    /\ runs = 0
    /\ fails = 0
    /\ start = RootId
    /\ fetchCount = [n \in Nodes |-> 0]
    /\ written = {}
    /\ failedFiles = {}
    /\ failedLists = {}
    /\ raisedFiles = {}
    /\ raisedLists = {}
    /\ skipped = {}
    /\ refetched = {}
    /\ resolved = NoResolution
    /\ dispatched = NoDispatch
    /\ loaded = NoLoad
    /\ main = NoMain
    /\ fetched = NoFetch

\* the history of a run that starts on folder f
FreshHistory(f) ==
    /\ start' = f
    /\ fetchCount' = [n \in Nodes |-> 0]
    /\ written' = {}
    /\ failedFiles' = {}
    /\ failedLists' = {}
    /\ raisedFiles' = {}
    /\ raisedLists' = {}
    /\ skipped' = {}
    /\ refetched' = {}

\* program p can be started: nothing ran yet, or its last run is over
CanStart(p) ==
    /\ prog = "idle" \/ (prog = p /\ stack = <<>> /\ ~raising)
    /\ runs < MaxRuns

\* the ways the listing of f can fail with the failures left: <<failAt, how>>
ListFailures(f) ==
    {<<0, "raise">>} \cup
    (IF fails < MaxFail THEN (1..NumPages(f)) \X ListOutcomes ELSE {})

\* ------------------------------------------------------- listing actions
\* a caller lists one folder with sharepoint_api.py
ListApi ==
    /\ CanStart("api")
    /\ \E f \in {RootId} \cup Folders : \E fl \in ListFailures(f) :
          /\ listed' = [impl |-> "api", folder |-> f, failAt |-> fl[1], how |-> fl[2],
                        result |-> list_folder_contents(f, fl[1], fl[2])]
          /\ fails' = fails + (IF fl[1] = 0 THEN 0 ELSE 1)
          /\ FreshHistory(f)
    /\ prog' = "api"
    /\ runs' = runs + 1
    /\ UNCHANGED <<remote, loading, stack, raising, processed_files, localfs, log>>

\* a caller lists one folder with sharepoint_aoi.py
ListAoi ==
    /\ CanStart("aoi")
    /\ \E f \in {RootId} \cup Folders :
       \E bad \in SUBSET ({f} \cup (Subtree(f) \cap Folders)) :
       \E how \in [bad -> ListOutcomes] :
          LET out == [g \in {RootId} \cup Nodes |-> IF g \in bad THEN how[g] ELSE "ok"]
          IN  /\ fails + Cardinality(bad) <= MaxFail
              /\ listed' = [impl |-> "aoi", folder |-> f, out |-> out,
                            result |-> list_folder_contents_aoi(f, out)]
              /\ fails' = fails + Cardinality(bad)
              /\ FreshHistory(f)
    /\ prog' = "aoi"
    /\ runs' = runs + 1
    /\ UNCHANGED <<remote, loading, stack, raising, processed_files, localfs, log>>

\* ----------------------------------------------------- local file system
LocalRootStr == <<"data">>     \* local_save_path = "data"

\* os.path.normpath(os.path.join(local_path, p)): an absolute p replaces
\* local_path; the segment <<"/">> stands for the root of the file system
JoinLocal(local_path, p) ==
    IF p # <<>> /\ Head(p) = "/" THEN << <<"/">> >> \o Segments(p)
    ELSE local_path \o Segments(p)

\* a local path as the string that is printed: its segments joined with '/'
RECURSIVE LocalStr(_)
LocalStr(p) ==
    IF p = <<>> THEN <<>>
    ELSE IF Len(p) = 1 THEN p[1]
    ELSE p[1] \o <<"/">> \o LocalStr(Tail(p))

\* os.makedirs(p, exist_ok=True)
MakeDirs(p) == dirs \cup Prefixes(p)

Frame(f, local) == [folder |-> f, st |-> "list", items |-> <<>>, i |-> 1, local |-> local]
Top == stack[Len(stack)]
Pop == SubSeq(stack, 1, Len(stack) - 1)
Advance == [stack EXCEPT ![Len(stack)].i = @ + 1]
Running(p) == prog = p /\ stack # <<>> /\ ~raising

\* outcomes of the download of one file
FileOutcomes == {"ok"} \cup (IF fails < MaxFail THEN {"http", "raise_req", "raise_os"} ELSE {})

\* download_file on status 200: the directory is ensured and the bytes written
SaveFile(n, full_path) ==
    /\ dirs' = dirs \cup Prefixes(SubSeq(full_path, 1, Len(full_path) - 1))
    /\ files' = files \cup {full_path}
    /\ written' = written \cup {full_path}
    /\ fetchCount' = [fetchCount EXCEPT ![n] = @ + 1]

\* ------------------------------------- sharepoint_api.py recursive_download
\* sharepoint_path = item['path'].lstrip('/');
\* new_local_path = os.path.normpath(os.path.join(local_path, sharepoint_path))
NewLocalPath(local_path, item) == JoinLocal(local_path, LStripSlash(item.path))

\* download_all_files calls recursive_download on the folder
RD_Start ==
    /\ CanStart("rd")
    /\ \E f \in {RootId} \cup Folders :
          /\ stack' = <<Frame(f, LocalRoot)>>
          /\ FreshHistory(f)
    /\ prog' = "rd"
    /\ runs' = runs + 1
    /\ UNCHANGED <<remote, loading, raising, listed, processed_files, localfs, log, fails>>

\* folder_contents = self.list_folder_contents(...).  When it raises, the
\* except clause formats new_local_path, which this frame never bound: the
\* handler raises UnboundLocalError into the caller.
RD_List ==
    /\ Running("rd") /\ Top.st = "list"
    /\ \E fl \in ListFailures(Top.folder) :
          LET r == list_folder_contents(Top.folder, fl[1], fl[2])
          IN  /\ fails' = fails + (IF fl[1] = 0 THEN 0 ELSE 1)
              /\ failedLists' = failedLists \cup (IF fl[1] = 0 THEN {} ELSE {Top.folder})
              /\ raisedLists' = raisedLists \cup (IF r.exc THEN {Top.folder} ELSE {})
              /\ IF r.exc
                 THEN stack' = Pop /\ raising' = TRUE
                 ELSE /\ stack' = [stack EXCEPT ![Len(stack)].st = "loop",
                                                ![Len(stack)].items = r.items]
                      /\ raising' = FALSE
    /\ UNCHANGED <<remote, loading, prog, listed, processed_files, localfs, log, runs,
                   start, fetchCount, written, failedFiles, raisedFiles, skipped, refetched>>

\* one iteration of the loop on a folder item: the directory of the item's
\* parent path is made, then the walk descends with the same local_path
RD_Folder ==
    /\ Running("rd") /\ Top.st = "loop" /\ Top.i <= Len(Top.items)
    /\ LET item == Top.items[Top.i]
       IN  /\ item.type = "folder"
           /\ dirs' = MakeDirs(NewLocalPath(Top.local, item))
           /\ stack' = Advance \o <<Frame(item.id, Top.local)>>
    /\ UNCHANGED <<remote, loading, prog, raising, listed, processed_files, files, log, runs,
                   fails, history>>

\* one iteration of the loop on a file item: download_file(uri, new_local_path, name)
RD_File ==
    /\ Running("rd") /\ Top.st = "loop" /\ Top.i <= Len(Top.items)
    /\ LET item == Top.items[Top.i]
           new_local_path == NewLocalPath(Top.local, item)
       IN  /\ item.type = "file"
           /\ \E o \in FileOutcomes :
                 /\ fails' = fails + (IF o = "ok" THEN 0 ELSE 1)
                 /\ failedFiles' = failedFiles \cup (IF o = "ok" THEN {} ELSE {item.id})
                 /\ raisedFiles' = raisedFiles \cup
                        (IF o \in {"raise_req", "raise_os"} THEN {item.id} ELSE {})
                 /\ CASE o = "ok" ->
                           /\ dirs' = MakeDirs(new_local_path) \cup Prefixes(new_local_path)
                           /\ files' = files \cup {new_local_path \o <<item.name>>}
                           /\ written' = written \cup {new_local_path \o <<item.name>>}
                           /\ fetchCount' = [fetchCount EXCEPT ![item.id] = @ + 1]
                           /\ stack' = Advance
                           /\ log' = log
                      [] o = "http" ->
                           /\ dirs' = MakeDirs(new_local_path)
                           /\ log' = log \cup {[by |-> "download_file", what |-> item.name]}
                           /\ stack' = Advance
                           /\ UNCHANGED <<files, written, fetchCount>>
                      [] OTHER ->
                           \* caught by this frame's except, which ends the loop
                           /\ dirs' = MakeDirs(new_local_path)
                           /\ log' = log \cup {[by |-> "recursive_download",
                                                what |-> LocalStr(new_local_path)]}
                           /\ stack' = Pop
                           /\ UNCHANGED <<files, written, fetchCount>>
    /\ UNCHANGED <<remote, loading, prog, raising, listed, processed_files, runs,
                   start, failedLists, raisedLists, skipped, refetched>>

\* the loop is over: return to the caller
RD_Return ==
    /\ Running("rd") /\ Top.st = "loop" /\ Top.i > Len(Top.items)
    /\ stack' = Pop
    /\ UNCHANGED <<remote, loading, prog, raising, listed, processed_files, localfs, log, runs,
                   fails, history>>

\* the exception a callee raised is caught by the caller's except clause
\* (new_local_path is bound there), which ends the caller's loop; out of the
\* outermost frame it is caught by download_all_files
RD_Catch ==
    /\ prog = "rd" /\ raising
    /\ raising' = FALSE
    /\ IF stack = <<>>
       THEN /\ stack' = stack
            /\ log' = log \cup {[by |-> "download_all_files", what |-> <<>>]}
       ELSE /\ stack' = Pop
            /\ log' = log \cup {[by |-> "recursive_download",
                                 what |-> LocalStr(NewLocalPath(Top.local,
                                                                Top.items[Top.i - 1]))]}
    /\ UNCHANGED <<remote, loading, prog, listed, processed_files, localfs, runs, fails, history>>

\* ------------------------ download_all_files_to_local_folder.py, the script
\* mutation: the membership test is dropped
NeverProcessed(id) == FALSE

\* mutation: the set of the earlier run is kept
StaleProcessedFiles == processed_files

\* if element_id in processed_files
AlreadyProcessed(id) == id \in processed_files

\* processed_files = set()
NewProcessedFiles == {}

\* mutation: the cut is made after the ':' only
DfcExtractedPathFromColon(parentPath) ==
    LET index == Find(parentPath, <<":", "/">>)
    IN  IF index # 0 THEN SubSeq(parentPath, index + 1, Len(parentPath)) ELSE <<>>

\* download_file_contents: index = sharepoint_file_path.find(":/");
\* extracted_path = sharepoint_file_path[index+2:] if index != -1 else ""
DfcExtractedPath(parentPath) ==
    LET index == Find(parentPath, <<":", "/">>)
    IN  IF index # 0 THEN SubSeq(parentPath, index + 2, Len(parentPath)) ELSE <<>>

\* download_file_contents: the directory the file is saved in
DfcLocalDir(parentPath) ==
    LET index == Find(parentPath, <<":", "/">>)
    IN  IF index # 0
        THEN Segments(LocalRootStr \o <<"/">> \o DfcExtractedPath(parentPath))
        ELSE Segments(LocalRootStr)

\* download_file_contents: os.makedirs(local_save_path, exist_ok=True), only
\* when ":/" was found in the path
DfcMakeDirs(parentPath) ==
    IF Find(parentPath, <<":", "/">>) # 0 THEN MakeDirs(DfcLocalDir(parentPath)) ELSE dirs

\* outcomes of download_file_contents: "ok" both GETs answer 200; "http" the
\* download answers another status; "raise_req" the download GET raises a
\* RequestException; "raise_os" the directory or the file cannot be written;
\* "meta_raise" the metadata GET raises a RequestException; "meta_errjson"
\* the metadata GET answers with an error body
DfcAllOutcomes == {"ok", "http", "raise_req", "raise_os", "meta_raise", "meta_errjson"}

\* what download_file_contents gives back: True after download_file returned
\* (whatever the status was), False from the handler of RequestException when
\* file_name is bound; otherwise the exception that leaves the call
DfcReturn(o) ==
    CASE o \in {"ok", "http"} -> [ret |-> "True", exc |-> "none"]
      [] o = "raise_req" -> [ret |-> "False", exc |-> "none"]
      [] o = "raise_os" -> [ret |-> "none", exc |-> "OSError"]
      [] o = "meta_raise" -> [ret |-> "none", exc |-> "UnboundLocalError"]
      [] o = "meta_errjson" -> [ret |-> "none", exc |-> "KeyError"]

DfcOutcomes ==
    {"ok"} \cup (IF fails < MaxFail
                 THEN {"http", "raise_req", "raise_os", "meta_raise", "meta_errjson"}
                 ELSE {})

\* the script lists the root folder and walks the result
PE_Start ==
    /\ CanStart("pe")
    /\ \E fl \in ListFailures(RootId) :
          LET r == list_folder_contents(RootId, fl[1], fl[2])
          IN  /\ fails' = fails + (IF fl[1] = 0 THEN 0 ELSE 1)
              /\ failedLists' = IF fl[1] = 0 THEN {} ELSE {RootId}
              /\ raisedLists' = IF r.exc THEN {RootId} ELSE {}
              /\ IF r.exc
                 THEN /\ stack' = <<>>      \* exit(1)
                      /\ log' = log \cup {[by |-> "script", what |-> <<>>]}
                 ELSE /\ stack' = <<[Frame(RootId, LocalRoot) EXCEPT
                                        !.st = "loop", !.items = r.items]>>
                      /\ log' = log
    /\ processed_files' = NewProcessedFiles
    /\ start' = RootId
    /\ fetchCount' = [n \in Nodes |-> 0]
    /\ written' = {} /\ failedFiles' = {} /\ raisedFiles' = {}
    /\ skipped' = {} /\ refetched' = {}
    /\ prog' = "pe"
    /\ runs' = runs + 1
    /\ UNCHANGED <<remote, loading, raising, listed, localfs>>

\* process_element on a folder
PE_Folder ==
    /\ Running("pe") /\ Top.i <= Len(Top.items)
    /\ LET element == Top.items[Top.i]
       IN  /\ element.type = "folder"
           /\ \E fl \in ListFailures(element.id) :
                 LET r == list_folder_contents(element.id, fl[1], fl[2])
                 IN  /\ fails' = fails + (IF fl[1] = 0 THEN 0 ELSE 1)
                     /\ failedLists' = failedLists \cup
                                          (IF fl[1] = 0 THEN {} ELSE {element.id})
                     /\ raisedLists' = raisedLists \cup
                                          (IF r.exc THEN {element.id} ELSE {})
                     /\ IF r.exc
                        THEN /\ stack' = Advance
                             /\ log' = log \cup {[by |-> "process_element folder",
                                                  what |-> <<>>]}
                        ELSE /\ stack' = Advance \o
                                   <<[Frame(element.id, Top.local) EXCEPT
                                         !.st = "loop", !.items = r.items]>>
                             /\ log' = log
    /\ UNCHANGED <<remote, loading, prog, raising, listed, processed_files, localfs, runs,
                   start, fetchCount, written, failedFiles, raisedFiles, skipped, refetched>>

\* process_element on a file
PE_File ==
    /\ Running("pe") /\ Top.i <= Len(Top.items)
    /\ LET element == Top.items[Top.i]
           file_id == element.id
           file_data == RemoteItem(file_id)
           local_save_path == DfcLocalDir(file_data.parentPath)
       IN  /\ element.type = "file"
           /\ stack' = Advance
           /\ IF AlreadyProcessed(file_id)
              THEN /\ skipped' = skipped \cup {file_id}
                   /\ UNCHANGED <<processed_files, localfs, log, fails, fetchCount,
                                  written, failedFiles, raisedFiles, refetched>>
              ELSE \E o \in DfcOutcomes :
                     /\ fails' = fails + (IF o = "ok" THEN 0 ELSE 1)
                     /\ failedFiles' = failedFiles \cup (IF o = "ok" THEN {} ELSE {file_id})
                     /\ raisedFiles' = raisedFiles \cup
                            (IF o \in {"ok", "http"} THEN {} ELSE {file_id})
                     /\ refetched' = refetched \cup
                            (IF file_id \in processed_files THEN {file_id} ELSE {})
                     /\ skipped' = skipped
                     /\ CASE o = "ok" ->
                               /\ dirs' = MakeDirs(local_save_path)
                               /\ files' = files \cup {local_save_path \o <<file_data.name>>}
                               /\ written' = written \cup {local_save_path \o <<file_data.name>>}
                               /\ fetchCount' = [fetchCount EXCEPT ![file_id] = @ + 1]
                               /\ processed_files' = processed_files \cup {file_id}
                               /\ log' = log
                          [] o = "http" ->
                               \* download_file prints; download_file_contents returns True
                               /\ dirs' = DfcMakeDirs(file_data.parentPath)
                               /\ log' = log \cup {[by |-> "download_file",
                                                    what |-> file_data.name]}
                               /\ processed_files' = processed_files \cup {file_id}
                               /\ UNCHANGED <<files, written, fetchCount>>
                          [] o = "raise_req" ->
                               \* caught in download_file_contents, which returns False
                               /\ dirs' = DfcMakeDirs(file_data.parentPath)
                               /\ log' = log \cup {[by |-> "download_file_contents",
                                                    what |-> file_data.name]}
                               /\ processed_files' = processed_files \cup {file_id}
                               /\ UNCHANGED <<files, written, fetchCount>>
                          [] OTHER ->
                               \* OSError, KeyError, or the UnboundLocalError of the
                               \* handler in download_file_contents: caught here
                               /\ log' = log \cup {[by |-> "process_element file",
                                                    what |-> element.fullpath]}
                               /\ UNCHANGED <<processed_files, localfs, written, fetchCount>>
    /\ UNCHANGED <<remote, loading, prog, raising, listed, runs, start, failedLists, raisedLists>>

\* the loop over the contents is over
PE_Return ==
    /\ Running("pe") /\ Top.i > Len(Top.items)
    /\ stack' = Pop
    /\ UNCHANGED <<remote, loading, prog, raising, listed, processed_files, localfs, log, runs,
                   fails, history>>

\* one call of download_file_contents on a file of the drive, per behaviour
DfcCall ==
    /\ fetched = NoFetch
    /\ \E file_id \in Files : \E o \in DfcAllOutcomes :
          LET file_data == RemoteItem(file_id)
              local_save_path == DfcLocalDir(file_data.parentPath)
              r == DfcReturn(o)
          IN  /\ fetched' = [file_id |-> file_id, out |-> o, ret |-> r.ret, exc |-> r.exc,
                             full_path |-> local_save_path \o <<file_data.name>>]
              /\ dirs' = CASE o = "ok" -> MakeDirs(local_save_path)
                           [] o \in {"http", "raise_req"} -> DfcMakeDirs(file_data.parentPath)
                           [] OTHER -> dirs
              /\ files' = IF o = "ok" THEN files \cup {local_save_path \o <<file_data.name>>}
                          ELSE files
              /\ log' = CASE o = "http" ->
                               log \cup {[by |-> "download_file", what |-> file_data.name]}
                          [] o = "raise_req" ->
                               log \cup {[by |-> "download_file_contents",
                                          what |-> file_data.name]}
                          [] OTHER -> log
    /\ UNCHANGED <<remote, control, listed, processed_files, runs, fails, history,
                   resolved, dispatched, loaded, main>>

\* ------------------------------- sharepoint_api.py download_folder_contents
\* new_path = os.path.join(local_folder_path, item['name'])
DfNewPath(local_folder_path, item) == local_folder_path \o <<item.name>>

\* if not os.path.exists(new_path): os.makedirs(new_path)
DfMakeDirs(new_path) == dirs \cup Prefixes(new_path)

DF_Start ==
    /\ CanStart("dfc")
    /\ \E f \in {RootId} \cup Folders :
          /\ stack' = <<Frame(f, LocalRoot)>>
          /\ FreshHistory(f)
    /\ prog' = "dfc"
    /\ runs' = runs + 1
    /\ UNCHANGED <<remote, loading, raising, listed, processed_files, localfs, log, fails>>

\* the one GET of the children; nothing catches what it raises, so the
\* whole call ends with the exception
DF_List ==
    /\ Running("dfc") /\ Top.st = "list"
    /\ \E o \in {"ok"} \cup (IF fails < MaxFail THEN ListOutcomes ELSE {}) :
          /\ fails' = fails + (IF o = "ok" THEN 0 ELSE 1)
          /\ failedLists' = failedLists \cup (IF o = "ok" THEN {} ELSE {Top.folder})
          /\ raisedLists' = raisedLists \cup (IF o = "raise" THEN {Top.folder} ELSE {})
          /\ CASE o = "ok" ->
                    /\ stack' = [stack EXCEPT ![Len(stack)].st = "loop",
                                    ![Len(stack)].items = PageResponse(Top.folder, 1).value]
                    /\ log' = log
               [] o = "errjson" ->      \* 'value' is not in the body
                    /\ stack' = Pop
                    /\ log' = log
               [] OTHER ->
                    /\ stack' = <<>>
                    /\ log' = log \cup {[by |-> "uncaught", what |-> <<>>]}
    /\ UNCHANGED <<remote, loading, prog, raising, listed, processed_files, localfs, runs,
                   start, fetchCount, written, failedFiles, raisedFiles, skipped, refetched>>

DF_Folder ==
    /\ Running("dfc") /\ Top.st = "loop" /\ Top.i <= Len(Top.items)
    /\ LET item == Top.items[Top.i]
           new_path == DfNewPath(Top.local, item)
       IN  /\ item.facet = "folder"
           /\ dirs' = DfMakeDirs(new_path)
           /\ stack' = Advance \o <<Frame(item.id, new_path)>>
    /\ UNCHANGED <<remote, loading, prog, raising, listed, processed_files, files, log, runs,
                   fails, history>>

DF_File ==
    /\ Running("dfc") /\ Top.st = "loop" /\ Top.i <= Len(Top.items)
    /\ LET item == Top.items[Top.i]
           full_path == Top.local \o <<item.name>>
       IN  /\ item.facet = "file"
           /\ \E o \in FileOutcomes :
                 /\ fails' = fails + (IF o = "ok" THEN 0 ELSE 1)
                 /\ failedFiles' = failedFiles \cup (IF o = "ok" THEN {} ELSE {item.id})
                 /\ raisedFiles' = raisedFiles \cup
                        (IF o \in {"raise_req", "raise_os"} THEN {item.id} ELSE {})
                 /\ CASE o = "ok" ->
                           /\ SaveFile(item.id, full_path)
                           /\ stack' = Advance
                           /\ log' = log
                      [] o = "http" ->
                           /\ log' = log \cup {[by |-> "download_file", what |-> item.name]}
                           /\ stack' = Advance
                           /\ UNCHANGED <<localfs, written, fetchCount>>
                      [] OTHER ->
                           /\ stack' = <<>>
                           /\ log' = log \cup {[by |-> "uncaught", what |-> <<>>]}
                           /\ UNCHANGED <<localfs, written, fetchCount>>
    /\ UNCHANGED <<remote, loading, prog, raising, listed, processed_files, runs,
                   start, failedLists, raisedLists, skipped, refetched>>

DF_Return ==
    /\ Running("dfc") /\ Top.st = "loop" /\ Top.i > Len(Top.items)
    /\ stack' = Pop
    /\ UNCHANGED <<remote, loading, prog, raising, listed, processed_files, localfs, log, runs,
                   fails, history>>

Next ==
    \/ ListApi
    \/ ListAoi
    \/ RD_Start
    \/ RD_List
    \/ RD_Folder
    \/ RD_File
    \/ RD_Return
    \/ RD_Catch
    \/ PE_Start
    \/ PE_Folder
    \/ PE_File
    \/ PE_Return
    \/ DF_Start
    \/ DF_List
    \/ DF_Folder
    \/ DF_File
    \/ DF_Return

Spec == Init /\ [][Next]_vars

\* one program at a time; a server that reports an item twice matters to
\* the script's dedup set only
InitNoDup == Init /\ dup = 0

NextList == ListApi \/ ListAoi
SpecList == InitNoDup /\ [][NextList]_vars

NextFetch == DfcCall
SpecFetch == InitNoDup /\ [][NextFetch]_vars

NextRD == RD_Start \/ RD_List \/ RD_Folder \/ RD_File \/ RD_Return \/ RD_Catch
SpecRD == InitNoDup /\ [][NextRD]_vars

NextPE == PE_Start \/ PE_Folder \/ PE_File \/ PE_Return
SpecPE == Init /\ [][NextPE]_vars

NextDF == DF_Start \/ DF_List \/ DF_Folder \/ DF_File \/ DF_Return
SpecDF == InitNoDup /\ [][NextDF]_vars

\* the two walks of sharepoint_api.py
NextWalks == NextRD \/ NextDF
SpecWalks == InitNoDup /\ [][NextWalks]_vars

\* ========================================== the traversals, step by step
\* --- the pagination loop of sharepoint_api.py list_folder_contents, one GET
\* per step: the frame holds the folder, the page to GET (0: the url is None)
\* and items_list
\* mutation: the entries are appended and the url is left as it was
PgNextSameUrl(fr, folder_contents) ==
    LET value == folder_contents.value
    IN  [fr EXCEPT !.items = @ \o [j \in 1..Len(value) |-> ApiEntry(value[j])]]

\* the body of the while loop after the GET: the entries of the page are
\* appended, folder_contents_url = folder_contents.get('@odata.nextLink')
PgNext(fr, folder_contents) ==
    LET value == folder_contents.value
    IN  [fr EXCEPT !.items = @ \o [j \in 1..Len(value) |-> ApiEntry(value[j])],
                   !.i = ApiNextUrl(folder_contents)]

\* items_list = []; folder_contents_url = .../items/{folder_id}/children
PG_Start ==
    /\ CanStart("pages")
    /\ \E f \in {RootId} \cup Folders :
          /\ stack' = <<[Frame(f, LocalRoot) EXCEPT !.st = "page"]>>
          /\ FreshHistory(f)
    /\ prog' = "pages"
    /\ runs' = runs + 1
    /\ UNCHANGED <<remote, loading, raising, listed, processed_files, localfs, log, fails>>

\* while folder_contents_url: one GET and the loop body; a GET that raises
\* ends the call with the exception, an error body has neither 'value' nor
\* '@odata.nextLink'
PG_Page ==
    /\ Running("pages") /\ Top.st = "page" /\ Top.i # 0
    /\ \E o \in {"ok"} \cup (IF fails < MaxFail THEN ListOutcomes ELSE {}) :
          /\ fails' = fails + (IF o = "ok" THEN 0 ELSE 1)
          /\ failedLists' = failedLists \cup (IF o = "ok" THEN {} ELSE {Top.folder})
          /\ raisedLists' = raisedLists \cup (IF o = "raise" THEN {Top.folder} ELSE {})
          /\ IF o = "raise"
             THEN /\ stack' = Pop
                  /\ listed' = [impl |-> "pages", folder |-> Top.folder,
                                result |-> [exc |-> TRUE, items |-> <<>>]]
             ELSE /\ stack' = [stack EXCEPT ![Len(stack)] =
                                  PgNext(Top, IF o = "errjson" THEN ErrorBody
                                              ELSE PageResponse(Top.folder, Top.i))]
                  /\ listed' = listed
    /\ UNCHANGED <<remote, loading, prog, raising, processed_files, localfs, log, runs,
                   start, fetchCount, written, failedFiles, raisedFiles, skipped, refetched>>

\* the url is None: return items_list
PG_Return ==
    /\ Running("pages") /\ Top.st = "page" /\ Top.i = 0
    /\ listed' = [impl |-> "pages", folder |-> Top.folder,
                  result |-> [exc |-> FALSE, items |-> Top.items]]
    /\ stack' = Pop
    /\ UNCHANGED <<remote, loading, prog, raising, processed_files, localfs, log, runs,
                   fails, history>>

NextPages == PG_Start \/ PG_Page \/ PG_Return

\* --- the listing loop and the two recursive downloads that use the listing
NextTerm == NextRD \/ NextPE \/ NextPages
SpecTerm == Init /\ [][NextTerm]_vars

\* ============================================================ get_folder_id
MaxSegments == 3     \* segments of a folder_path

NoneId == 0 - 1      \* Python's None as a folder id

\* the folder paths get_folder_id is called with: up to MaxSegments segments,
\* each the name of a node or empty, joined with '/'
RECURSIVE JoinSlash(_)
JoinSlash(segs) ==
    IF Len(segs) = 1 THEN segs[1] ELSE segs[1] \o <<"/">> \o JoinSlash(Tail(segs))

FolderPaths ==
    {JoinSlash(segs) :
        segs \in UNION {[1..k -> {<<>>} \cup {Name(n) : n \in Nodes}] : k \in 1..MaxSegments}}

\* the inner loop: the first item of the page that has the folder facet and
\* the name; 0 when the loop ends without a break
RECURSIVE FirstMatch(_, _, _)
FirstMatch(value, folder_name, j) ==
    IF j > Len(value) THEN 0
    ELSE IF value[j].facet = "folder" /\ value[j].name = folder_name THEN value[j].id
    ELSE FirstMatch(value, folder_name, j + 1)

\* the loop over the segments from position k on; the failAt-th GET is made
\* to fail with outcome o: it raises, or its body has no 'value' and
\* items_data['value'] raises KeyError.  Only the first page of the children
\* is fetched ('@odata.nextLink' is not read).
RECURSIVE GetFolderIdFrom(_, _, _, _, _)
GetFolderIdFrom(current_folder_id, folders, k, failAt, o) ==
    IF k > Len(folders) THEN [exc |-> "none", id |-> current_folder_id]
    ELSE IF k = failAt
    THEN [exc |-> IF o = "raise" THEN "RequestException" ELSE "KeyError", id |-> NoneId]
    ELSE LET items_data == PageResponse(current_folder_id, 1)
             found == FirstMatch(items_data.value, folders[k], 1)
         IN  IF found = 0 THEN [exc |-> "none", id |-> NoneId]
             ELSE GetFolderIdFrom(found, folders, k + 1, failAt, o)

\* get_folder_id(site_id, drive_id, folder_path)
get_folder_id(folder_path, failAt, o) ==
    LET folders == Split(folder_path, <<"/">>)
    IN  GetFolderIdFrom(RootId, folders, 1, failAt, o)

\* one call of get_folder_id per behaviour
GetFolderId ==
    /\ resolved = NoResolution
    /\ \E folder_path \in FolderPaths :
       \E fl \in {<<0, "ok">>} \cup ((1..Len(Split(folder_path, <<"/">>))) \X ListOutcomes) :
          LET r == get_folder_id(folder_path, fl[1], fl[2])
          IN  resolved' = [impl |-> "get_folder_id", folder_path |-> folder_path,
                           failAt |-> fl[1], out |-> fl[2], exc |-> r.exc, id |-> r.id]
    /\ UNCHANGED <<remote, control, listed, processed_files, localfs, log, runs, fails,
                   history, dispatched, loaded, main, fetched>>

NextFolderId == GetFolderId
SpecFolderId == InitNoDup /\ [][NextFolderId]_vars

\* ========================================================= path resolution
\* The parent paths a resolution is applied to: token strings of up to
\* MaxPathLen tokens, alone or behind the drive part of a Graph path.  ':' is
\* no character of a SharePoint name: it occurs only as the end of 'root:'.
MaxPathLen == 4

PathTokens == {"/", "root", ":", "a"}

RECURSIVE StringsUpTo(_)
StringsUpTo(k) ==
    IF k = 0 THEN {<<>>}
    ELSE LET shorter == StringsUpTo(k - 1)
         IN  shorter \cup {Append(x, t) : x \in {y \in shorter : Len(y) = k - 1},
                                          t \in PathTokens}

ColonsOf(x) == {i \in 1..Len(x) : x[i] = ":"}

PathTails ==
    {x \in StringsUpTo(MaxPathLen) :
        /\ Cardinality(ColonsOf(x)) <= 1
        /\ \A i \in ColonsOf(x) : i > 1 /\ x[i - 1] = "root"}

DrivePart == <<"/", "drives", "/", "drv", "/">>

ParentPaths == PathTails \cup {DrivePart \o x : x \in PathTails}

ItemNames == {<<"b">>, <<"c">>}

ItemAt(parentPath, name) ==
    [id |-> 1, name |-> name, facet |-> "file", parentPath |-> parentPath]

\* sharepoint_api.py list_folder_contents resolves the path of one item
ResolveApi ==
    /\ resolved = NoResolution
    /\ \E pp \in ParentPaths : \E nm \in ItemNames :
          LET e == ApiEntry(ItemAt(pp, nm))
          IN  resolved' = [impl |-> "api", parentPath |-> pp, name |-> nm,
                           path |-> e.path, fullpath |-> e.fullpath]
    /\ UNCHANGED <<remote, control, listed, processed_files, localfs, log, runs, fails,
                   history, dispatched, loaded, main, fetched>>

\* sharepoint_aoi.py list_folder_contents resolves the path of one item
ResolveAoi ==
    /\ resolved = NoResolution
    /\ \E pp \in ParentPaths : \E nm \in ItemNames :
          resolved' = [impl |-> "aoi", parentPath |-> pp, name |-> nm,
                       path |-> ResolvePath(pp),
                       fullpath |-> AoiEntry(ItemAt(pp, nm)).path]
    /\ UNCHANGED <<remote, control, listed, processed_files, localfs, log, runs, fails,
                   history, dispatched, loaded, main, fetched>>

\* download_file_contents resolves the directory of one file; fullpath is
\* the local path the file is saved at
ResolveDfc ==
    /\ resolved = NoResolution
    /\ \E pp \in ParentPaths : \E nm \in ItemNames :
          resolved' = [impl |-> "dfc", parentPath |-> pp, name |-> nm,
                       path |-> DfcExtractedPath(pp),
                       fullpath |-> LocalStr(DfcLocalDir(pp) \o <<nm>>)]
    /\ UNCHANGED <<remote, control, listed, processed_files, localfs, log, runs, fails,
                   history, dispatched, loaded, main, fetched>>

\* one resolution per behaviour, applied to a given string: the drive plays
\* no part
InitOffline ==
    /\ Init
    /\ kind = [n \in Nodes |-> "file"]
    /\ parent = [n \in Nodes |-> RootId]
    /\ pageSize = 1
    /\ dup = 0

NextResolve == ResolveApi \/ ResolveAoi \/ ResolveDfc
SpecResolve == InitOffline /\ [][NextResolve]_vars

\* ================================================ load_sharepoint_document
\* A MIME type is a string of tokens: the type itself, then the tokens of a
\* parameter if it has one.  The empty string is what list_folder_contents
\* reports for a folder, 'N/A' what main.py passes when the key is absent.
PdfType == <<"application/pdf">>
WordType == <<"application/vnd.openxmlformats-officedocument.wordprocessingml.document">>
PptType == <<"application/vnd.openxmlformats-officedocument.presentationml.presentation">>
ExcelType == <<"application/vnd.openxmlformats-officedocument.spreadsheetml.sheet">>
CsvType == <<"text/csv">>
PlainType == <<"text/plain">>

KnownTypes == {PdfType, WordType, PptType, ExcelType, CsvType, PlainType}

MimeTypes ==
    KnownTypes
    \cup {t \o <<";", "charset=utf-8">> : t \in KnownTypes}
    \cup {<<"APPLICATION/PDF">>, <<"TEXT/PLAIN">>, <<"text">>, <<"application/msword">>,
          <<"image/png">>, <<"N/A">>, <<>>}

FileNames == {<<"b">>, <<"/", "a">>}

\* mutation: the parameters of the type are ignored
TypeIsBase(file_type, t) == file_type # <<>> /\ <<Head(file_type)>> = t

\* file_type == '...'
TypeIs(file_type, t) == file_type = t

\* the if / elif chain; "None" is the value of a call that falls off the end
LoaderFor(file_type) ==
    IF TypeIs(file_type, PdfType) THEN "CustomPDFLoader"
    ELSE IF TypeIs(file_type, WordType) THEN "CustomWordLoader"
    ELSE IF TypeIs(file_type, PptType) THEN "CustomPPTLoader"
    ELSE IF TypeIs(file_type, ExcelType) THEN "CustomExcelLoader"
    ELSE IF \E t \in {CsvType, PlainType} : TypeIs(file_type, t) THEN "CustomTextLoader"
    ELSE "None"

\* outcomes of the two GETs: both answered, the download answered with an
\* error status (its body becomes the stream), the GET of the metadata or of
\* the bytes raising, the metadata answered with an error body, which holds
\* no '@microsoft.graph.downloadUrl' (KeyError)
LoadOutcomes == {"ok", "dl_http", "meta_raise", "meta_errjson", "dl_raise"}

load_sharepoint_document(file_name, file_type, out) ==
    IF out \in {"meta_raise", "meta_errjson", "dl_raise"}
    THEN [exc |-> TRUE, loader |-> "None", filename |-> <<>>]
    ELSE [exc |-> FALSE, loader |-> LoaderFor(file_type),
          filename |-> IF LoaderFor(file_type) = "None" THEN <<>> ELSE file_name]

\* print(f"Unsupported file type: {file_type}"), in sharepoint_api.py only
UnsupportedLog(impl, r, file_type) ==
    IF impl = "api" /\ ~r.exc /\ r.loader = "None"
    THEN {[by |-> "load_sharepoint_document", what |-> file_type]}
    ELSE {}

Dispatch(impl) ==
    /\ dispatched = NoDispatch
    /\ \E nm \in FileNames : \E ft \in MimeTypes : \E out \in LoadOutcomes :
          LET r == load_sharepoint_document(nm, ft, out)
          IN  /\ dispatched' = [impl |-> impl, file_name |-> nm, file_type |-> ft,
                                 out |-> out, result |-> r]
              /\ log' = log \cup UnsupportedLog(impl, r, ft)
    /\ UNCHANGED <<remote, control, listed, processed_files, localfs, runs, fails,
                   history, resolved, loaded, main, fetched>>

DispatchApi == Dispatch("api")
DispatchAoi == Dispatch("aoi")

NextDispatch == DispatchApi \/ DispatchAoi
SpecDispatch == InitOffline /\ [][NextDispatch]_vars

\* ============================================================= the loaders
MaxUnits == 3        \* paragraphs, sheets, slides, bytes of one document

\* all sequences over S of at most k elements
SeqsUpTo(S, k) == UNION {[1..n -> S] : n \in 0..k}

\* mutation: only the first part is kept
JoinLinesFirst(parts) == IF parts = <<>> THEN <<>> ELSE parts[1]

\* "\n".join(parts)
RECURSIVE JoinLines(_)
JoinLines(parts) ==
    IF parts = <<>> THEN <<>>
    ELSE IF Len(parts) = 1 THEN parts[1]
    ELSE parts[1] \o <<"\n">> \o JoinLines(Tail(parts))

\* dict merge {**a, **b}
MergeMeta(a, b) ==
    [k \in DOMAIN a \cup DOMAIN b |-> IF k \in DOMAIN b THEN b[k] ELSE a[k]]

NoMeta == [k \in {} |-> 0]

\* --- the text_splitter argument: None, or an object with create_documents.
\* "lines" is main.py's CharacterTextSplitter(separator="\n"): one Document
\* per non-empty line, with empty metadata; "indexed" also records the index
\* of the piece (add_start_index); "tagging" is a splitter that attaches
\* metadata of its own, keys 'source' and 'page' among them.
Chunkers == {"None", "lines", "indexed", "tagging"}

ChunkerMeta(chunker, j) ==
    IF chunker = "indexed" THEN [start_index |-> j - 1]
    ELSE IF chunker = "tagging"
    THEN [start_index |-> j - 1, source |-> <<"splitter">>, page |-> <<"p">>]
    ELSE NoMeta

\* text_splitter.create_documents([text])
create_documents(chunker, text) ==
    LET pieces == SelectSeq(Split(text, <<"\n">>), LAMBDA piece : piece # <<>>)
    IN  [j \in 1..Len(pieces) |->
            [form |-> "Document", text |-> pieces[j],
             metadata |-> ChunkerMeta(chunker, j)]]

Raised == [exc |-> TRUE, result |-> <<>>]
Returned(docs) == [exc |-> FALSE, result |-> docs]

\* --- CustomWordLoader.load_and_split; DocxDocument raises on a stream that
\* is no Word document
WordLoadAndSplit(stream, filename, text_splitter) ==
    IF stream.fmt # "docx" THEN Raised
    ELSE LET text == JoinLines(stream.paragraphs)
             split_text ==
                 IF text_splitter # "None" THEN create_documents(text_splitter, text)
                 ELSE <<[form |-> "dict", text |-> text,
                         metadata |-> [source |-> filename]]>>
         IN  Returned([j \in 1..Len(split_text) |->
                 [split_text[j] EXCEPT
                     !.metadata = MergeMeta(@, [source |-> filename])]])

\* --- CustomExcelLoader.load_and_split
\* df.values.astype(str): a number prints as itself, a missing cell as 'nan'
CellStr(v) ==
    IF v = "NaN" THEN <<"nan">>
    ELSE IF v = "num:1" THEN <<"1">>
    ELSE <<"x">>

\* 'page': sheet
ExcelPage(sheets, j) == sheets[j].name

\* mutation: the metadata of the splitter is merged, as the Word loader does
ExcelStampMerged(metadata, filename, page) ==
    MergeMeta(metadata, [source |-> filename, page |-> page])

\* doc.metadata = {'source': self.filename, 'page': sheet}
ExcelStamp(metadata, filename, page) == [source |-> filename, page |-> page]

RECURSIVE ExcelSheets(_, _, _, _, _)
ExcelSheets(sheets, j, split_sheets, filename, text_splitter) ==
    IF j > Len(sheets) THEN split_sheets
    ELSE LET sheet == ExcelPage(sheets, j)
             cells == sheets[j].cells
             text == JoinLines([c \in 1..Len(cells) |-> CellStr(cells[c])])
             split_text == create_documents(text_splitter, text)
             stamped == [d \in 1..Len(split_text) |->
                            [split_text[d] EXCEPT
                                !.metadata = ExcelStamp(@, filename, sheet)]]
             doc == [form |-> "Document", text |-> text,
                     metadata |-> [source |-> filename, page |-> sheet]]
         IN  ExcelSheets(sheets, j + 1,
                         IF text_splitter # "None" THEN split_sheets \o stamped
                         ELSE Append(split_sheets, doc),
                         filename, text_splitter)

ExcelLoadAndSplit(stream, filename, text_splitter) ==
    IF stream.fmt # "xlsx" THEN Raised
    ELSE Returned(ExcelSheets(stream.sheets, 1, <<>>, filename, text_splitter))

\* --- CustomPPTLoader.load_and_split; i is the index of enumerate
\* mutation: the page is the index of enumerate
PptPageZeroBased(i) == i

\* 'page': i + 1
PptPage(i) == i + 1

RECURSIVE PptSlides(_, _, _, _, _)
PptSlides(slides, i, documents, filename, text_splitter) ==
    IF i >= Len(slides) THEN documents
    ELSE LET slide_text == JoinLines(slides[i + 1])
             doc == [form |-> "dict", text |-> slide_text,
                     metadata |-> [source |-> filename, page |-> PptPage(i)]]
             split_text == create_documents(text_splitter, slide_text)
             stamped == [d \in 1..Len(split_text) |->
                            [split_text[d] EXCEPT
                                !.metadata = [source |-> filename, page |-> PptPage(i)]]]
         IN  PptSlides(slides, i + 1,
                       IF text_splitter = "None" THEN Append(documents, doc)
                       ELSE documents \o stamped,
                       filename, text_splitter)

PptLoadAndSplit(stream, filename, text_splitter) ==
    IF stream.fmt # "pptx" THEN Raised
    ELSE Returned(PptSlides(stream.slides, 0, <<>>, filename, text_splitter))

\* --- CustomTextLoader.load_and_split
\* the bytes of a text: 'H', a line feed, and the two bytes of a letter
\* outside ASCII
ByteChar(b) ==
    IF b = "48" THEN "H" ELSE IF b = "0A" THEN "\n" ELSE "e-acute"

IsAscii(rawdata) == \A k \in 1..Len(rawdata) : rawdata[k] # "C3A9"

\* chardet.detect(rawdata)['encoding']: None for no bytes, 'ascii' for bytes
\* of ASCII; otherwise the encoding, another one, or None when the detector
\* finds none
Detected(rawdata) ==
    IF rawdata = <<>> THEN {"None"}
    ELSE IF IsAscii(rawdata) THEN {"ascii"}
    ELSE {"utf-8", "EUC-JP", "None"}

\* rawdata.decode(encoding): TypeError for None, UnicodeDecodeError when the
\* bytes are no text of the encoding
Decode(rawdata, encoding) ==
    IF encoding = "None" THEN [exc |-> TRUE, text |-> <<>>]
    ELSE IF encoding # "utf-8" /\ ~IsAscii(rawdata) THEN [exc |-> TRUE, text |-> <<>>]
    ELSE [exc |-> FALSE, text |-> [k \in 1..Len(rawdata) |-> ByteChar(rawdata[k])]]

TextLoadAndSplit(stream, filename, text_splitter) ==
    LET decoded == Decode(stream.rawdata, stream.encoding)
        text == decoded.text
        split_text ==
            IF text_splitter # "None" THEN create_documents(text_splitter, text)
            ELSE <<[form |-> "dict", text |-> text, metadata |-> [source |-> filename]]>>
    IN  IF stream.fmt # "bytes" \/ decoded.exc THEN Raised
        ELSE Returned([j \in 1..Len(split_text) |->
                 [split_text[j] EXCEPT
                     !.metadata = MergeMeta(@, [source |-> filename])]])

\* --- CustomPDFLoader: load() is its own, load_and_split is the one of
\* BaseLoader, which the class does not override
\* PyPDFParser.parse(blob): one Document per page, with the source of the blob
\* (none: the blob is made from bytes) and the number of the page, from 0
PdfParse(stream) ==
    [k \in 1..Len(stream.pages) |->
        [form |-> "Document", text |-> stream.pages[k],
         metadata |-> [source |-> <<>>, page |-> k - 1]]]

\* mutation: the documents of the parser are returned as they are
PdfStampNone(metadata, filename) == metadata

\* doc.metadata.update({'source': self.filename})
PdfStamp(metadata, filename) == MergeMeta(metadata, [source |-> filename])

\* CustomPDFLoader.load; the parser raises on bytes that are no PDF
PdfLoad(stream, filename) ==
    IF stream.fmt # "pdf" THEN Raised
    ELSE LET documents == PdfParse(stream)
         IN  Returned([k \in 1..Len(documents) |->
                 [documents[k] EXCEPT !.metadata = PdfStamp(@, filename)]])

\* the TextSplitter objects load_and_split of BaseLoader works with: the
\* default one when text_splitter is None, which keeps a text of this size
\* whole, or the one supplied
PdfChunkers == {"None", "lines", "indexed"}

\* text_splitter.split_text(text): no piece for an empty text
split_text(chunker, text) ==
    IF chunker = "None" THEN (IF text = <<>> THEN <<>> ELSE <<text>>)
    ELSE SelectSeq(Split(text, <<"\n">>), LAMBDA piece : piece # <<>>)

\* text_splitter.split_documents(docs): the pieces of every document, in
\* order, each with a copy of the metadata of its document
RECURSIVE split_documents(_, _)
split_documents(chunker, docs) ==
    IF docs = <<>> THEN <<>>
    ELSE LET doc == Head(docs)
             pieces == split_text(chunker, doc.text)
         IN  [j \in 1..Len(pieces) |->
                 [form |-> "Document", text |-> pieces[j],
                  metadata |-> MergeMeta(doc.metadata, ChunkerMeta(chunker, j))]]
             \o split_documents(chunker, Tail(docs))

\* loader.load_and_split(text_splitter) of a CustomPDFLoader: docs =
\* self.load(), then the splitter
PdfLoadAndSplit(stream, filename, text_splitter) ==
    LET docs == PdfLoad(stream, filename)
    IN  IF docs.exc THEN Raised
        ELSE Returned(split_documents(text_splitter, docs.result))

\* --- the documents the loaders are applied to
ParTexts == {<<>>, <<"Hello">>, <<"World">>}
WordStreams ==
    {[fmt |-> "docx", paragraphs |-> ps] : ps \in SeqsUpTo(ParTexts, MaxUnits)}

SheetNames == {"S1", "S2", "S3", "S4"}
SheetCells == {<<>>, <<"str:x">>, <<"num:1", "NaN">>}
Workbooks ==
    {sheets \in SeqsUpTo([name : SheetNames, cells : SheetCells], MaxUnits) :
        /\ sheets # <<>>
        /\ \A a, b \in 1..Len(sheets) : a # b => sheets[a].name # sheets[b].name}
ExcelStreams == {[fmt |-> "xlsx", sheets |-> w] : w \in Workbooks}

SlideParagraphs == {<<>>, << <<"Hello">> >>, << <<"Hello">>, <<>>, <<"World">> >>}
PptStreams ==
    {[fmt |-> "pptx", slides |-> sl] : sl \in SeqsUpTo(SlideParagraphs, MaxUnits)}

TextStreams ==
    {st \in [fmt : {"bytes"}, rawdata : SeqsUpTo({"48", "0A", "C3A9"}, MaxUnits),
             encoding : {"None", "ascii", "utf-8", "EUC-JP"}] :
        st.encoding \in Detected(st.rawdata)}

PageTexts == {<<>>, <<"Hello">>, <<"Hello", "\n", "World">>}
PdfStreams ==
    {[fmt |-> "pdf", pages |-> pg] : pg \in SeqsUpTo(PageTexts, MaxUnits)}

\* a stream that is no document: the body of an answer with an error status
ErrorStream == [fmt |-> "bytes", rawdata |-> <<"48">>, encoding |-> "ascii"]

\* loader.load_and_split(text_splitter)
LoadAndSplit(loader, stream, filename, text_splitter) ==
    IF loader = "CustomWordLoader" THEN WordLoadAndSplit(stream, filename, text_splitter)
    ELSE IF loader = "CustomExcelLoader" THEN ExcelLoadAndSplit(stream, filename, text_splitter)
    ELSE IF loader = "CustomPPTLoader" THEN PptLoadAndSplit(stream, filename, text_splitter)
    ELSE IF loader = "CustomPDFLoader" THEN PdfLoadAndSplit(stream, filename, text_splitter)
    ELSE TextLoadAndSplit(stream, filename, text_splitter)

\* one call of a load_and_split per behaviour
Load(loader, streams) ==
    /\ loaded = NoLoad
    /\ \E stream \in streams \cup {ErrorStream} :
       \E filename \in FileNames : \E text_splitter \in Chunkers :
          LET r == LoadAndSplit(loader, stream, filename, text_splitter)
          IN  loaded' = [loader |-> loader, stream |-> stream, filename |-> filename,
                         text_splitter |-> text_splitter, exc |-> r.exc,
                         result |-> r.result]
    /\ UNCHANGED <<remote, control, listed, processed_files, localfs, log, runs, fails,
                   history, resolved, dispatched, main, fetched>>

LoadWord == Load("CustomWordLoader", WordStreams)
LoadExcel == Load("CustomExcelLoader", ExcelStreams)
LoadPPT == Load("CustomPPTLoader", PptStreams)
LoadText == Load("CustomTextLoader", TextStreams)

NextLoad == LoadWord \/ LoadExcel \/ LoadPPT \/ LoadText
SpecLoad == InitOffline /\ [][NextLoad]_vars

\* --- a second call of load_and_split on the same loader object
\* stream.read(): the bytes from the position of the stream to its end; the
\* position is then the end
StreamRead(rawdata, pos) ==
    [data |-> SubSeq(rawdata, pos + 1, Len(rawdata)), pos |-> Len(rawdata)]

\* what the second call finds in self.stream: the Text loader reads from the
\* position the first read() left, and chardet detects on these bytes; the
\* readers of the Word, Excel and PowerPoint loaders open the stream as a zip
\* archive and seek in it, wherever its position is
SecondStreams(loader, stream) ==
    IF loader = "CustomTextLoader"
    THEN LET first == StreamRead(stream.rawdata, 0)
             second == StreamRead(stream.rawdata, first.pos)
         IN  {[fmt |-> "bytes", rawdata |-> second.data, encoding |-> e] :
                 e \in Detected(second.data)}
    ELSE {stream}

LoadAgain ==
    /\ loaded # NoLoad /\ "again" \notin DOMAIN loaded
    /\ loaded.loader \in {"CustomWordLoader", "CustomExcelLoader", "CustomPPTLoader",
                          "CustomTextLoader"}
    /\ \E stream \in SecondStreams(loaded.loader, loaded.stream) :
          LET r == LoadAndSplit(loaded.loader, stream, loaded.filename,
                                loaded.text_splitter)
          IN  loaded' = [loader |-> loaded.loader, stream |-> loaded.stream,
                         filename |-> loaded.filename,
                         text_splitter |-> loaded.text_splitter,
                         exc |-> loaded.exc, result |-> loaded.result,
                         again |-> r]
    /\ UNCHANGED <<remote, control, listed, processed_files, localfs, log, runs, fails,
                   history, resolved, dispatched, main, fetched>>

NextReload == NextLoad \/ LoadAgain
SpecReload == InitOffline /\ [][NextReload]_vars

\* --- one call on a CustomPDFLoader per behaviour: of load(), or of
\* load_and_split(text_splitter) as main.py calls it
PdfCallLoad ==
    /\ loaded = NoLoad
    /\ \E stream \in PdfStreams \cup {ErrorStream} : \E filename \in FileNames :
          LET r == PdfLoad(stream, filename)
          IN  loaded' = [loader |-> "CustomPDFLoader", method |-> "load",
                         stream |-> stream, filename |-> filename,
                         text_splitter |-> "None", exc |-> r.exc, result |-> r.result]
    /\ UNCHANGED <<remote, control, listed, processed_files, localfs, log, runs, fails,
                   history, resolved, dispatched, main, fetched>>

PdfCallLoadAndSplit ==
    /\ loaded = NoLoad
    /\ \E stream \in PdfStreams \cup {ErrorStream} : \E filename \in FileNames :
       \E text_splitter \in PdfChunkers :
          LET r == PdfLoadAndSplit(stream, filename, text_splitter)
          IN  loaded' = [loader |-> "CustomPDFLoader", method |-> "load_and_split",
                         stream |-> stream, filename |-> filename,
                         text_splitter |-> text_splitter, exc |-> r.exc,
                         result |-> r.result]
    /\ UNCHANGED <<remote, control, listed, processed_files, localfs, log, runs, fails,
                   history, resolved, dispatched, main, fetched>>

NextPdf == PdfCallLoad \/ PdfCallLoadAndSplit
SpecPdf == InitOffline /\ [][NextPdf]_vars

\* ================================================================ main.py
MaxBatch == 2        \* entries of the folder main.py loops over

\* the entries list_folder_contents can report for the folder: their type,
\* 'mimeType' ('' for a folder), 'path', and the bytes behind the entry
FileEntry(mimeType, stream) ==
    [type |-> "file", mimeType |-> mimeType, path |-> <<"/", "a">>, stream |-> stream]

BatchItems ==
    {FileEntry(WordType, [fmt |-> "docx", paragraphs |-> << <<"Hello">>, <<"World">> >>]),
     FileEntry(ExcelType, [fmt |-> "xlsx",
                           sheets |-> <<[name |-> "S1", cells |-> <<"str:x">>]>>]),
     FileEntry(PptType, [fmt |-> "pptx", slides |-> << << <<"Hello">> >> >>]),
     FileEntry(PlainType, [fmt |-> "bytes", rawdata |-> <<"48", "0A", "48">>,
                           encoding |-> "ascii"]),
     FileEntry(PlainType, [fmt |-> "bytes", rawdata |-> <<>>, encoding |-> "None"]),
     FileEntry(CsvType, [fmt |-> "bytes", rawdata |-> <<"C3A9">>, encoding |-> "EUC-JP"]),
     FileEntry(PdfType, [fmt |-> "pdf", pages |-> << <<"Hello", "\n", "World">> >>]),
     FileEntry(<<"image/png">>, [fmt |-> "png"]),
     [type |-> "folder", mimeType |-> <<>>, path |-> <<>>, stream |-> [fmt |-> "none"]]}

\* the answers to the two GETs for an entry: the metadata of a folder holds
\* no '@microsoft.graph.downloadUrl'
MainOutcomes(content) ==
    IF content.type = "folder" THEN {"meta_errjson"}
    ELSE {"ok"} \cup (IF fails < MaxFail THEN LoadOutcomes \ {"ok"} ELSE {})

\* contents = client.list_folder_contents(site_id, drive_id, folder_id)
MainStart ==
    /\ main = NoMain
    /\ \E contents \in SeqsUpTo(BatchItems, MaxBatch) :
          main' = [st |-> "loop", contents |-> contents, i |-> 1, docs |-> <<>>,
                   error |-> "none"]
    /\ UNCHANGED <<remote, control, listed, processed_files, localfs, log, runs, fails,
                   history, resolved, dispatched, loaded, fetched>>

\* one iteration of `for content in contents`: nothing in the loop catches,
\* so an exception ends the script
MainStep ==
    /\ main.st = "loop" /\ main.i <= Len(main.contents)
    /\ LET content == main.contents[main.i]
       IN  \E out \in MainOutcomes(content) :
              LET r == load_sharepoint_document(content.path, content.mimeType, out)
                  stream == IF out = "dl_http" THEN ErrorStream ELSE content.stream
                  split == LoadAndSplit(r.loader, stream, r.filename, "lines")
              IN  /\ fails' = fails + (IF out = "ok" \/ content.type = "folder" THEN 0 ELSE 1)
                  /\ log' = log \cup UnsupportedLog("api", r, content.mimeType)
                  /\ main' =
                        IF r.exc
                        THEN [main EXCEPT !.st = "crashed", !.error = "load_sharepoint_document"]
                        ELSE IF r.loader = "None"
                        THEN [main EXCEPT !.st = "crashed", !.error = "AttributeError"]
                        ELSE IF split.exc
                        THEN [main EXCEPT !.st = "crashed", !.error = "load_and_split"]
                        ELSE [main EXCEPT !.i = @ + 1, !.docs = Append(@, split.result)]
    /\ UNCHANGED <<remote, control, listed, processed_files, localfs, runs,
                   history, resolved, dispatched, loaded, fetched>>

\* the loop is over
MainEnd ==
    /\ main.st = "loop" /\ main.i > Len(main.contents)
    /\ main' = [main EXCEPT !.st = "done"]
    /\ UNCHANGED <<remote, control, listed, processed_files, localfs, log, runs, fails,
                   history, resolved, dispatched, loaded, fetched>>

NextMain == MainStart \/ MainStep \/ MainEnd
SpecMain == InitOffline /\ [][NextMain]_vars

\* ======================================================= claims: listings
ListedIds == [j \in 1..Len(listed.result.items) |-> listed.result.items[j].id]

\* no request of the listing call was made to fail
NoInjected ==
    /\ listed.impl = "api" => listed.failAt = 0
    /\ listed.impl = "aoi" => \A g \in DOMAIN listed.out : listed.out[g] = "ok"

IsFolderEntry(e) == e.type \in {"folder", "Folder"}
IsFileEntry(e) == e.type \in {"file", "File"}

\* what a walk that reads only the first page of every listing reaches under f
RECURSIVE FirstPageReach(_)
FirstPageReach(f) ==
    LET value == PageResponse(f, 1).value
        ids == {value[j].id : j \in 1..Len(value)}
    IN  ids \cup UNION {FirstPageReach(g) : g \in {n \in ids : kind[n] = "folder"}}

\* number of entries of the listing that lie under folder g
EntriesUnder(g) == Cardinality({j \in 1..Len(ListedIds) : IsUnder(ListedIds[j], g)})

\* every children listing under f fits on one page
OnePageEach(f) == \A g \in {f} \cup (Subtree(f) \cap Folders) : NumPages(g) = 1

\* C1 as stated: a list_folder_contents returns the whole subtree of the
\* folder in depth-first pre-order: every Folder entry is immediately
\* followed by the contiguous run of the entries of all its descendants.
\* (Stated of the trees whose listings fit on one page each, where the
\* continuation links of C3 play no part.)
C1_PreOrderWholeSubtree ==
    (listed.impl \in {"api", "aoi"} /\ NoInjected /\ OnePageEach(listed.folder)) =>
        /\ {ListedIds[j] : j \in 1..Len(ListedIds)} = Subtree(listed.folder)
        /\ \A i \in 1..Len(ListedIds) :
              IsFolderEntry(listed.result.items[i]) =>
                 LET D == Subtree(ListedIds[i])
                 IN  /\ i + Cardinality(D) <= Len(ListedIds)
                     /\ {ListedIds[j] : j \in (i + 1)..(i + Cardinality(D))} = D

\* C1 amended: the list_folder_contents of sharepoint_aoi.py returns its
\* entries in depth-first pre-order: every Folder entry is immediately
\* followed by the contiguous run of the entries of its descendants that the
\* result holds, which are, when no request fails, the descendants reached
\* through the first page of each listing; the list_folder_contents of
\* sharepoint_api.py returns direct children of the folder only.
C1_PreOrderOfListed ==
    /\ (listed.impl = "aoi" /\ ~listed.result.exc) =>
          \A i \in 1..Len(ListedIds) :
             IsFolderEntry(listed.result.items[i]) =>
                LET g == ListedIds[i]
                    run == (i + 1)..(i + EntriesUnder(g))
                IN  /\ i + EntriesUnder(g) <= Len(ListedIds)
                    /\ \A j \in run : IsUnder(ListedIds[j], g)
                    /\ NoInjected => {ListedIds[j] : j \in run} = FirstPageReach(g)
    /\ (listed.impl = "api" /\ ~listed.result.exc) =>
          \A j \in 1..Len(ListedIds) : parent[ListedIds[j]] = listed.folder

\* a recursive listing holds a folder with a descendant and a later sibling
C1_Witness ==
    /\ listed.impl = "aoi" /\ ~listed.result.exc
    /\ \E i \in 1..Len(ListedIds) :
          /\ IsFolderEntry(listed.result.items[i])
          /\ EntriesUnder(ListedIds[i]) > 0
          /\ i + EntriesUnder(ListedIds[i]) < Len(ListedIds)

\* C2: for every remote tree and folder, the number of File entries a
\* list_folder_contents returns equals the number of files in the subtree
\* under the folder, at any depth and on any result page.
C2_FileCount ==
    (listed.impl \in {"api", "aoi"} /\ NoInjected /\ dup = 0) =>
        Cardinality({j \in 1..Len(ListedIds) : IsFileEntry(listed.result.items[j])})
            = Cardinality(FilesUnder(listed.folder))

\* C3: listing a folder's children follows @odata.nextLink until it is
\* absent: the children of the folder appear in the result exactly as the
\* pages report them, every page, in page order.
C3_FollowsNextLink ==
    (listed.impl \in {"api", "aoi"} /\ NoInjected) =>
        SelectSeq(ListedIds, LAMBDA n : parent[n] = listed.folder)
            = ChildIds(listed.folder)

\* C4: when a page fetch of list_folder_contents fails, the call fails: it
\* never returns the items of the earlier pages as a successful result.
C4_NoPartialList ==
    (listed.impl = "api" /\ listed.failAt # 0) => listed.result.exc

\* ====================================================== claims: downloads
\* the run of program p is over
Done(p) == prog = p /\ stack = <<>> /\ ~raising

Downloaded(n) == fetchCount[n] >= 1

\* localRoot joined with the resolved relative parent path and the name
ExpectedLocalFile(n) ==
    LocalRoot \o Segments(ResolvePath(ParentReferencePath(n))) \o <<Name(n)>>

\* the local directory that mirrors the folder of a frame: under
\* download_folder_contents the frame's own local_folder_path, under
\* recursive_download localRoot joined with the folder's resolved path
MirrorDir(fr) ==
    IF prog = "dfc" THEN fr.local
    ELSE LocalRoot \o Segments(PathFromRoot(fr.folder))

\* C5: when the download of a file fails (HTTP error, or an error that
\* raises), every other file of the tree is still downloaded, the later
\* siblings of the failing file included.
C5_OtherFilesDownloaded ==
    ((Done("rd") \/ Done("pe")) /\ failedLists = {} /\ failedFiles # {}) =>
        \A n \in FilesUnder(start) \ failedFiles : Downloaded(n)

\* C6: when the listing of folder F fails, only F's subtree is skipped: every
\* file outside it, the items after F in its parent included, is downloaded.
C6_OnlySubtreeSkipped ==
    ((Done("rd") \/ Done("pe")) /\ failedFiles = {} /\ failedLists # {}) =>
        \A n \in FilesUnder(start) :
           (\A g \in failedLists : ~IsUnder(n, g)) => Downloaded(n)

\* C7: within one run of the script no file id is downloaded more than once,
\* and a file whose id is in processed_files when it is met is not fetched.
C7_NoDoubleDownload ==
    prog = "pe" => /\ \A n \in Nodes : fetchCount[n] <= 1
                   /\ refetched = {}

\* a file was met again after it was downloaded, and skipped
C7_Witness ==
    /\ prog = "pe"
    /\ \E n \in skipped : fetchCount[n] = 1 /\ n \in processed_files

\* C8: every run starts with its own empty dedup set: processed_files holds
\* only ids this run recorded, and a run in which nothing fails downloads
\* every file, whatever an earlier run recorded.
C8_FreshDedupSet ==
    prog = "pe" =>
        /\ processed_files \subseteq {n \in Nodes : Downloaded(n)} \cup failedFiles
        /\ (Done("pe") /\ failedFiles = {} /\ failedLists = {}) =>
              \A n \in FilesUnder(RootId) : fetchCount[n] = 1

\* a second run, after a first one that downloaded files, downloaded them again
C8_Witness ==
    /\ Done("pe") /\ runs = 2 /\ fails = 0
    /\ FilesUnder(RootId) # {}
    /\ \A n \in FilesUnder(RootId) : fetchCount[n] = 1 /\ n \in processed_files

\* C9: after a download of the tree in which every fetch succeeds, every file
\* of the tree exists locally at localRoot joined with its resolved relative
\* parent path and its name, and nothing else was written.  Stated of the
\* downloads started on the drive root, where the path below the start folder
\* and the resolved relative path are the same path.
C9_MirroredAtResolvedPath ==
    ((Done("rd") \/ Done("pe") \/ Done("dfc"))
        /\ start = RootId /\ failedFiles = {} /\ failedLists = {}) =>
        written = {ExpectedLocalFile(n) : n \in FilesUnder(start)}

\* C10: for every folder the walk has descended into, the local
\* directory mirroring that folder existed before the descent.
C10_MirrorDirBeforeDescent ==
    prog \in {"rd", "dfc"} =>
        \A k \in 2..Len(stack) : MirrorDir(stack[k]) \in dirs

\* the resolved full path the listing reports for node n
ResolvedFullPath(n) == ApiEntry(RemoteItem(n)).fullpath

\* a printed line holds the resolved path of node n
LoggedWithPath(n) == \E e \in log : Find(e.what, ResolvedFullPath(n)) # 0

\* C11: every failed file download of a tree download leaves a log entry that
\* names the failing file by its resolved path, and the other files of the
\* tree are still downloaded.  Stated of the failures the claim gives as its
\* example, the fetches answered with an HTTP error status.
C11_FailureLoggedWithPath ==
    ((Done("rd") \/ Done("pe"))
        /\ failedFiles # {} /\ raisedFiles = {} /\ failedLists = {}) =>
        /\ \A n \in failedFiles : LoggedWithPath(n)
        /\ \A n \in FilesUnder(start) \ failedFiles : Downloaded(n)

\* ================================================= claims: path resolution
Sentinel == <<"root", ":">>
HasSentinel(p) == Find(p, Sentinel) # 0

\* the substring of p after the root sentinel
AfterSentinel(p) == SubSeq(p, Find(p, Sentinel) + Len(Sentinel), Len(p))

\* a relative parent path joined by '/' with a name
JoinName(rel, nm) == IF rel = <<>> THEN nm ELSE rel \o <<"/">> \o nm

\* C12 as stated: when the parent path holds the root sentinel, the resolved
\* relative parent path is exactly the substring after the sentinel, in the
\* two listings and in download_file_contents, and the resolved full path of
\* a listing is that substring joined by '/' with the name.
C12_SubstringAfterSentinel ==
    (resolved.impl # "none" /\ HasSentinel(resolved.parentPath)) =>
        /\ resolved.path = AfterSentinel(resolved.parentPath)
        /\ resolved.impl \in {"api", "aoi"} =>
              resolved.fullpath = JoinName(AfterSentinel(resolved.parentPath), resolved.name)

\* C12 amended: in the two listings the resolved relative parent path is
\* exactly the substring after the sentinel and the full path is that
\* substring joined by '/' with the name; download_file_contents cuts at
\* ':/' instead: its path is the substring after the sentinel without the
\* '/' that follows the sentinel (empty when no '/' follows it), and the file
\* is saved under the local root at the segments of that path and the name.
C12_AfterSentinelOrSlash ==
    (resolved.impl # "none" /\ HasSentinel(resolved.parentPath)) =>
        LET rest == AfterSentinel(resolved.parentPath)
            cut == IF rest # <<>> /\ Head(rest) = "/" THEN Tail(rest) ELSE <<>>
        IN  /\ resolved.impl \in {"api", "aoi"} =>
                  /\ resolved.path = rest
                  /\ resolved.fullpath = JoinName(rest, resolved.name)
            /\ resolved.impl = "dfc" =>
                  /\ resolved.path = cut
                  /\ resolved.fullpath =
                        LocalStr(<<LocalRootStr>> \o Segments(cut) \o <<resolved.name>>)

\* download_file_contents resolved the path of a file in a sub-folder
C12_Witness ==
    /\ resolved.impl = "dfc"
    /\ resolved.parentPath = DrivePart \o Sentinel \o <<"/", "a">>
    /\ resolved.path = <<"a">>
    /\ resolved.fullpath = <<"data", "/", "a", "/", "b">>

\* C13 as stated: when the parent path does not hold the root sentinel, the
\* resolution does not crash and the resolved path is the whole parent path,
\* taken as already relative, joined with the name.
C13_WholeParentPathKept ==
    (resolved.impl # "none" /\ ~HasSentinel(resolved.parentPath)) =>
        /\ resolved.path = resolved.parentPath
        /\ resolved.impl \in {"api", "aoi"} =>
              resolved.fullpath = JoinName(resolved.parentPath, resolved.name)

\* C13 amended: when the parent path does not hold the root sentinel, the
\* resolution does not crash, the resolved relative parent path is empty (the
\* parent path is dropped) and the resolved full path is the name alone;
\* download_file_contents saves the file directly under the local root.
C13_ParentPathDropped ==
    (resolved.impl # "none" /\ ~HasSentinel(resolved.parentPath)) =>
        /\ resolved.path = <<>>
        /\ resolved.impl \in {"api", "aoi"} => resolved.fullpath = resolved.name
        /\ resolved.impl = "dfc" =>
              resolved.fullpath = LocalRootStr \o <<"/">> \o resolved.name

\* the listing resolved an item whose parent path is '/a', without sentinel
C13_Witness ==
    /\ resolved.impl = "api"
    /\ resolved.parentPath = <<"/", "a">>
    /\ resolved.path = <<>>
    /\ resolved.fullpath = resolved.name

\* the resolved paths an entry of a listing carries
EntryPaths(e) == IF "fullpath" \in DOMAIN e THEN {e.path, e.fullpath} ELSE {e.path}

BeginsWithSlash(x) == x # <<>> /\ Head(x) = "/"

\* C14 as stated: no resolved path reported for a listed node begins with
\* '/', for the nodes directly under the root and for the nested ones.
C14_NoLeadingSlash ==
    listed.impl # "none" =>
        \A j \in 1..Len(listed.result.items) :
           \A x \in EntryPaths(listed.result.items[j]) : ~BeginsWithSlash(x)

\* C14 amended: the resolved paths are root-relative; for a node directly
\* under the root the relative parent path is empty and the full path is the
\* bare name, without leading '/'; for a node nested in sub-folders the
\* relative parent path and the full path begin with '/': they are '/' and
\* the root-relative path.
C14_SlashWhenNested ==
    listed.impl # "none" =>
        \A j \in 1..Len(listed.result.items) :
           LET e == listed.result.items[j]
               full == IF parent[e.id] = RootId THEN Name(e.id) ELSE PathFromRoot(e.id)
           IN  /\ listed.impl = "api" =>
                     e.path = PathFromRoot(parent[e.id]) /\ e.fullpath = full
               /\ listed.impl = "aoi" => e.path = full
               /\ \A x \in EntryPaths(e) :
                     BeginsWithSlash(x) <=> (x # <<>> /\ parent[e.id] # RootId)

\* a listing reported a node nested in a sub-folder, and one under the root
C14_Witness ==
    /\ listed.impl = "api" /\ listed.folder # RootId
    /\ listed.result.items # <<>>
    /\ BeginsWithSlash(listed.result.items[1].path)
    /\ BeginsWithSlash(listed.result.items[1].fullpath)

\* ============================================================ claims: loaders
\* C15: the dispatch is an exact match on the MIME type string: each of the
\* six types of the table gives its loader, and any other value, a type of
\* the table in other case or with a parameter included, gives the
\* unsupported sentinel None; when the two requests are answered no dispatch
\* raises.
C15_ExactMimeDispatch ==
    (dispatched.impl # "none" /\ dispatched.out \in {"ok", "dl_http"}) =>
        LET ft == dispatched.file_type
            r == dispatched.result
        IN  /\ ~r.exc
            /\ ft = PdfType => r.loader = "CustomPDFLoader"
            /\ ft = WordType => r.loader = "CustomWordLoader"
            /\ ft = PptType => r.loader = "CustomPPTLoader"
            /\ ft = ExcelType => r.loader = "CustomExcelLoader"
            /\ ft \in {CsvType, PlainType} => r.loader = "CustomTextLoader"
            /\ ft \notin KnownTypes => r.loader = "None"
            /\ r.loader # "None" => r.filename = dispatched.file_name

\* a type of the table with a parameter was dispatched to no loader
C15_Witness ==
    /\ dispatched.impl = "api"
    /\ dispatched.file_type = PlainType \o <<";", "charset=utf-8">>
    /\ dispatched.out = "ok"
    /\ dispatched.result.loader = "None" /\ ~dispatched.result.exc

\* a load_and_split returned, called without / with a text splitter
LoadedPlain == loaded.loader # "none" /\ ~loaded.exc /\ loaded.text_splitter = "None"
LoadedSplit == loaded.loader # "none" /\ ~loaded.exc /\ loaded.text_splitter # "None"

\* the lines of a text
LinesOf(text) == Split(text, <<"\n">>)

\* text is the parts joined by line feeds
IsJoinOf(text, parts) == IF parts = <<>> THEN text = <<>> ELSE LinesOf(text) = parts

NonEmpty(parts) == SelectSeq(parts, LAMBDA x : x # <<>>)

\* the texts of the logical units of the loaded document, in unit order:
\* per unit the strings its extracted text is made of
UnitParts ==
    IF loaded.loader = "CustomWordLoader" THEN <<loaded.stream.paragraphs>>
    ELSE IF loaded.loader = "CustomExcelLoader"
    THEN [j \in 1..Len(loaded.stream.sheets) |->
             [c \in 1..Len(loaded.stream.sheets[j].cells) |->
                 CellStr(loaded.stream.sheets[j].cells[c])]]
    ELSE IF loaded.loader = "CustomPPTLoader" THEN loaded.stream.slides
    ELSE <<LinesOf(Decode(loaded.stream.rawdata, loaded.stream.encoding).text)>>

\* C18: without a text splitter load_and_split returns exactly one chunk per
\* logical unit, in unit order (one for a Word or Text document, one per
\* sheet, one per slide); the text of a chunk is the text of its unit, its
\* parts joined by line feeds, and metadata.source is the filename.
C18_OneChunkPerUnit ==
    LoadedPlain =>
        /\ Len(loaded.result) = Len(UnitParts)
        /\ loaded.loader \in {"CustomWordLoader", "CustomTextLoader"} =>
              Len(loaded.result) = 1
        /\ \A j \in 1..Len(loaded.result) :
              /\ IsJoinOf(loaded.result[j].text, UnitParts[j])
              /\ loaded.result[j].metadata.source = loaded.filename

\* the Word document of paragraphs 'Hello', '', 'World' gave one chunk
C18_Witness ==
    /\ LoadedPlain /\ loaded.loader = "CustomWordLoader"
    /\ loaded.stream.paragraphs = << <<"Hello">>, <<>>, <<"World">> >>
    /\ Len(loaded.result) = 1
    /\ loaded.result[1].text = <<"Hello", "\n", "\n", "World">>
    /\ loaded.result[1].metadata = [source |-> loaded.filename]

\* the metadata keys the text splitter attaches to its documents
ChunkerKeys == DOMAIN ChunkerMeta(loaded.text_splitter, 1)

\* C19 as stated: with a text splitter every returned chunk carries
\* metadata.source = filename (and metadata.page for Excel and PowerPoint),
\* and the keys the splitter attached, other than source and page, are kept.
C19_ChunkerMetadataKept ==
    LoadedSplit =>
        \A j \in 1..Len(loaded.result) :
           LET m == loaded.result[j].metadata
           IN  /\ m.source = loaded.filename
               /\ loaded.loader \in {"CustomExcelLoader", "CustomPPTLoader"} =>
                     "page" \in DOMAIN m
               /\ ChunkerKeys \ {"source", "page"} \subseteq DOMAIN m

\* C19 amended: with a text splitter every returned chunk carries
\* metadata.source = filename; the Word and Text loaders merge: every other
\* key the splitter attached is kept with its value; the Excel and PowerPoint
\* loaders replace: the metadata of a chunk is source and page alone, and the
\* keys the splitter attached are dropped.
C19_MergedOrReplaced ==
    LoadedSplit =>
        \A j \in 1..Len(loaded.result) :
           LET m == loaded.result[j].metadata
           IN  /\ m.source = loaded.filename
               /\ loaded.loader \in {"CustomWordLoader", "CustomTextLoader"} =>
                     /\ DOMAIN m = ChunkerKeys \cup {"source"}
                     /\ \A k \in ChunkerKeys \ {"source"} :
                           m[k] = ChunkerMeta(loaded.text_splitter, j)[k]
               /\ loaded.loader \in {"CustomExcelLoader", "CustomPPTLoader"} =>
                     DOMAIN m = {"source", "page"}

\* the Excel loader returned chunks of a splitter that records start_index
C19_Witness ==
    /\ LoadedSplit /\ loaded.loader = "CustomExcelLoader"
    /\ loaded.text_splitter = "indexed"
    /\ loaded.result # <<>>
    /\ DOMAIN loaded.result[1].metadata = {"source", "page"}

\* the page a chunk of unit j carries: the sheet name, the 1-based position
\* of the slide
PageOfUnit(j) ==
    IF loaded.loader = "CustomExcelLoader" THEN loaded.stream.sheets[j].name ELSE j

\* the texts of the chunks of the result that carry page pg, in result order
TextsOfPage(pg) ==
    LET chunks == SelectSeq(loaded.result, LAMBDA d : d.metadata.page = pg)
    IN  [k \in 1..Len(chunks) |-> chunks[k].text]

\* C20: every chunk of an Excel sheet has metadata.page = the sheet's name and
\* every chunk of a slide has metadata.page = the slide's 1-based position,
\* with and without a text splitter, and the chunks come in sheet / slide
\* order: the chunks that carry the page of unit j are those of unit j, and
\* no chunk of a later unit comes before a chunk of an earlier one.
C20_PageIsSheetOrSlide ==
    (loaded.loader \in {"CustomExcelLoader", "CustomPPTLoader"} /\ ~loaded.exc) =>
        /\ \A a \in 1..Len(loaded.result) :
              \E j \in 1..Len(UnitParts) :
                 /\ loaded.result[a].metadata.page = PageOfUnit(j)
                 /\ \A b \in a..Len(loaded.result) : \E i \in j..Len(UnitParts) :
                       loaded.result[b].metadata.page = PageOfUnit(i)
        /\ \A j \in 1..Len(UnitParts) :
              IF loaded.text_splitter = "None"
              THEN /\ Len(TextsOfPage(PageOfUnit(j))) = 1
                   /\ IsJoinOf(TextsOfPage(PageOfUnit(j))[1], UnitParts[j])
              ELSE TextsOfPage(PageOfUnit(j)) = NonEmpty(UnitParts[j])

\* the chunks of a presentation of two slides, split by a text splitter: the
\* last one is of slide 2
C20_Witness ==
    /\ LoadedSplit /\ loaded.loader = "CustomPPTLoader"
    /\ Len(loaded.stream.slides) = 2
    /\ Len(loaded.result) > 2
    /\ loaded.result[1].metadata.page = 1
    /\ loaded.result[Len(loaded.result)].metadata.page = 2

\* ============================================================ claims: main.py
\* the entry main.py stopped at
Current == main.contents[main.i]

\* a Word document is among the entries after the current one
EntriesLeft ==
    \E k \in (main.i + 1)..Len(main.contents) : main.contents[k].mimeType = WordType

Unsupported(content) == content.type = "file" /\ content.mimeType \notin KnownTypes

\* C16: a file whose MIME type is outside the dispatch table is not fatal to
\* the batch: no exception reaches the caller because of it, it gives no
\* chunk, and the loop goes on to the remaining entries: the script never
\* ends on such a file with entries left.
C16_UnsupportedNonFatal ==
    (main.st = "crashed" /\ EntriesLeft) =>
        ~(Unsupported(Current) /\ main.error = "AttributeError")

\* C17: a decoding failure of the Text loader, the one of a detection that
\* yields no encoding included, is fatal for that file only: the loop goes on
\* to the remaining entries, the script never ends on such a file with
\* entries left.
C17_DecodeFailureSkipsFile ==
    (main.st = "crashed" /\ EntriesLeft) =>
        ~(/\ LoaderFor(Current.mimeType) = "CustomTextLoader"
          /\ main.error = "load_and_split"
          /\ Decode(Current.stream.rawdata, Current.stream.encoding).exc)

\* ====================================================== claims: PDF loader
PdfReturned == loaded.loader = "CustomPDFLoader" /\ ~loaded.exc

\* the chunks of the result that come from page k of the document
ChunksOfPage(k) ==
    SelectSeq(loaded.result, LAMBDA d : d.metadata.page = k - 1)

\* the result is one chunk per page of the parser, in page order, with the
\* text of the page and the filename as source
OneChunkPerPage ==
    /\ Len(loaded.result) = Len(loaded.stream.pages)
    /\ \A k \in 1..Len(loaded.result) :
          /\ loaded.result[k].text = loaded.stream.pages[k]
          /\ loaded.result[k].metadata.source = loaded.filename
          /\ loaded.result[k].metadata.page = k - 1

\* C21 (as stated): whatever call returns the chunks of a PDF, and whatever
\* chunker is passed, the result is one chunk per page of the parser, stamped
\* with the filename: the same result as with no chunker
C21_ChunkerNeverApplied == PdfReturned => OneChunkPerPage

\* C21 (amended): load() returns one chunk per page of the parser, stamped
\* with the filename; load_and_split, which main.py calls, hands these pages
\* to the chunker (the default one when none is passed): every chunk carries
\* the filename as source and the number of its page, the chunks come in page
\* order, and the chunks of a page are its non-empty lines under a line
\* chunker, the page itself (none for an empty page) under the default one
C21_PagesThenChunker ==
    PdfReturned =>
        /\ loaded.method = "load" => OneChunkPerPage
        /\ loaded.method = "load_and_split" =>
              /\ \A j \in 1..Len(loaded.result) :
                    /\ loaded.result[j].metadata.source = loaded.filename
                    /\ loaded.result[j].metadata.page \in 0..(Len(loaded.stream.pages) - 1)
              /\ \A i, j \in 1..Len(loaded.result) :
                    i < j => loaded.result[i].metadata.page <= loaded.result[j].metadata.page
              /\ \A k \in 1..Len(loaded.stream.pages) :
                    LET texts == [j \in 1..Len(ChunksOfPage(k)) |-> ChunksOfPage(k)[j].text]
                        page == loaded.stream.pages[k]
                    IN  texts = IF loaded.text_splitter = "None"
                                THEN NonEmpty(<<page>>)
                                ELSE NonEmpty(LinesOf(page))

\* a page of two lines went through load_and_split with a line chunker and
\* came back as two chunks
C21_Witness ==
    /\ PdfReturned /\ loaded.method = "load_and_split"
    /\ loaded.text_splitter = "lines"
    /\ loaded.stream.pages = << <<"Hello", "\n", "World">> >>
    /\ Len(loaded.result) = 2

\* ========================================== claims: download_file_contents
\* C22: download_file_contents returns True exactly when the bytes of the
\* file were fetched and saved locally, and in every other outcome it
\* returns False: it neither returns True nor raises
C22_TrueIffSaved ==
    fetched # NoFetch =>
        /\ fetched.exc = "none"
        /\ fetched.ret \in {"True", "False"}
        /\ fetched.ret = "True" <=> fetched.full_path \in files

\* ==================================================== claims: get_folder_id
\* the folder the path names: from the root, at each segment the child that
\* is a folder and has the segment as its name; NoneId when there is none
RECURSIVE FolderOfPath(_, _)
FolderOfPath(f, segs) ==
    IF segs = <<>> THEN f
    ELSE LET match == {n \in Folders : parent[n] = f /\ Name(n) = Head(segs)}
         IN  IF match = {} THEN NoneId
             ELSE FolderOfPath(CHOOSE n \in match : TRUE, Tail(segs))

\* C23: when no request fails, get_folder_id returns the id of the folder the
\* path names, walking the '/'-separated segments from the root through
\* children that are folders of that name, and None when a segment has no
\* such child
C23_FolderIdOfPath ==
    (resolved.impl = "get_folder_id" /\ resolved.failAt = 0) =>
        /\ resolved.exc = "none"
        /\ resolved.id = FolderOfPath(RootId, Split(resolved.folder_path, <<"/">>))

\* ============================================ claims: the dedup set, again
\* C24: at every point of a run of the script, processed_files holds only ids
\* of files whose bytes were fetched with success and written locally: a file
\* whose download failed is never recorded
C24_ProcessedOnlyDownloaded ==
    prog = "pe" => \A n \in processed_files : Downloaded(n)

\* ============================================ claims: load_and_split twice
CalledTwice == loaded # NoLoad /\ "again" \in DOMAIN loaded

\* C25: a second call of load_and_split on the same loader, after a first one
\* that returned, returns too, and returns chunks equal to those of the first
\* call, for the Text, Word, Excel and PowerPoint loaders
C25_SecondCallEqual ==
    (CalledTwice /\ ~loaded.exc) =>
        /\ ~loaded.again.exc
        /\ loaded.again.result = loaded.result

\* ====================================================== claims: termination
\* The statements a call still has to run, counted on the drive: a call on
\* folder f makes its listing, one iteration per child, the calls on the
\* child folders, and returns.
RECURSIVE Work(_)
RECURSIVE WorkOfChildren(_, _)
Work(f) == 2 + WorkOfChildren(ChildIds(f), 1)
WorkOfChildren(ids, j) ==
    IF j > Len(ids) THEN 0
    ELSE 1 + (IF kind[ids[j]] = "folder" THEN Work(ids[j]) ELSE 0)
           + WorkOfChildren(ids, j + 1)

\* the iterations left in a loop over items, from position j on
RECURSIVE WorkOfItems(_, _)
WorkOfItems(items, j) ==
    IF j > Len(items) THEN 0
    ELSE 1 + (IF items[j].type = "folder" THEN Work(items[j].id) ELSE 0)
           + WorkOfItems(items, j + 1)

\* what is left of one frame: a call that has not listed yet, a loop over the
\* listed items, or a pagination loop with the pages from its url on
WorkOfFrame(fr) ==
    IF fr.st = "list" THEN Work(fr.folder)
    ELSE IF fr.st = "loop" THEN 1 + WorkOfItems(fr.items, fr.i)
    ELSE 1 + (IF fr.i = 0 THEN 0 ELSE NumPages(fr.folder) - fr.i + 1)

RECURSIVE WorkOfStack(_)
WorkOfStack(st) ==
    IF st = <<>> THEN 0 ELSE WorkOfFrame(Head(st)) + WorkOfStack(Tail(st))

\* the variant of a traversal: the work left in the frames of the stack, and
\* the handler an exception in flight still has to reach
Variant == WorkOfStack(stack) + (IF raising THEN 1 ELSE 0)

\* the call is over: every frame was left and no exception is in flight
Over == prog \in {"rd", "pe", "pages"} /\ stack = <<>> /\ ~raising

\* C26: on every drive (a finite tree whose listings have finitely many
\* pages) the pagination loop of list_folder_contents and the walks of
\* recursive_download and process_element terminate, whether their requests
\* succeed or fail: every step of a started call, whatever its outcome, makes
\* the variant smaller, the variant is a natural number, and it is 0 exactly
\* when the call is over
C26_TraversalsTerminate ==
    [][/\ runs' = runs => Variant' < Variant
       /\ Variant' >= 0
       /\ (Variant' = 0) <=> (stack' = <<>> /\ ~raising')]_vars

\* a walk over a drive with a folder inside a folder came to its end after a
\* request failed and a file was downloaded
C26_Witness ==
    /\ Over /\ prog \in {"rd", "pe"} /\ fails > 0
    /\ \E n \in Folders : parent[n] \in Folders
    /\ \E n \in Files : Downloaded(n)
====
